---- MODULE Spec2Model ----
(***************************************************************************)
(* The self-rolled authentication core sketched in DOCS/auth-todo.mdx and  *)
(* in the "Building Custom User Authentication with Prisma" document:      *)
(* the Prisma tables User and Session, the utilities hashPassword,         *)
(* verifyPassword, generateSessionToken and generateSessionExpiry, the     *)
(* queries/mutations createSession, invalidateSession, getValidSession and *)
(* registerUser, and the Login flow of the specification (login-user.ts is *)
(* named by the documents but its body is not part of them).               *)
(*                                                                         *)
(* Every request runs in one of a few request slots; an await in the code  *)
(* is a step boundary, a single Prisma call is one atomic step.            *)
(***************************************************************************)
EXTENDS Integers, Sequences, FiniteSets, TLC

VARIABLES
    users,          \* table "users": a set of User rows
    sessions,       \* table "sessions": a set of Session rows
    profiles,       \* table "profiles": a set of Profile rows
    now,            \* Date.now(), in milliseconds
    req,            \* per request slot: the flow in progress and its locals
    out,            \* what the call that finished last returned or threw
    nextUserId,     \* source of User ids (cuid())
    nextSessionId,  \* source of Session ids (cuid())
    nextProfileId,  \* source of Profile ids (cuid())
    plain,          \* history: user id -> the plaintext it registered with
    issued,         \* history: every Session row ever inserted, with its origin
    failed,         \* history: user id -> the number of its logins that failed verification
    invalidated,    \* history: ids of the Session rows an invalidateSession deleted
    events          \* history: the number of calls made and clock advances so far

vars == <<users, sessions, profiles, now, req, out, nextUserId, nextSessionId,
          nextProfileId, plain, issued, failed, invalidated, events>>

history == <<plain, issued, failed, invalidated>>

----------------------------------------------------------------------------
(* Bounds of the model *)

\* a run holds at most this many events: calls made and advances of the clock
MaxEvents == 5
\* the clock advances by this many hours at a time
TickHours == 12

\* the request slots: flows that can be in progress at the same time
Procs == {1, 2}
\* what callers submit (a plaintext is a string; a one-element tuple keeps it
\* comparable with a digest)
Emails == {"a@x.com", "b@x.com"}
Usernames == {"alice", "bob"}
Passwords == {<<"pw123!">>, <<"wrong">>}
\* the registrations callers submit: every pair of them shares the email, the
\* username, both or neither
Registrations ==
    {[email |-> "a@x.com", username |-> "alice", password |-> <<"pw123!">>],
     [email |-> "a@x.com", username |-> "bob", password |-> <<"wrong">>],
     [email |-> "b@x.com", username |-> "alice", password |-> <<"wrong">>],
     [email |-> "b@x.com", username |-> "bob", password |-> <<"pw123!">>]}
\* what the random sources can deliver: bcrypt salts, and randomBytes outputs
Salts == {"N9qo8uLOickgx2ZMRZoMye"}
RandomBytes == {<<161>>, <<178>>}

----------------------------------------------------------------------------
(* Values *)

\* JavaScript null and undefined
Null == [null |-> TRUE]
Undefined == [undefined |-> TRUE]

\* a DateTime? column holding no value (no clock value equals it)
NoDate == 0 - 1

\* generateSessionExpiry's factor: milliseconds in an hour
HourMs == 60 * 60 * 1000

\* generateSessionExpiry's default argument, hours = 24
DefaultHours == 24

\* hashPassword's saltRounds
SaltRounds == 10

\* User.failedLoginAttempts Int @default(0)
DefaultFailedLoginAttempts == 0

\* User.role UserRole @default(USER)
DefaultRole == "USER"

----------------------------------------------------------------------------
(* Utilities *)

\* the bcrypt core: a one-way function of cost, salt and plaintext (symbolic)
Crypt(rounds, salt, password) == <<rounds, salt, password>>

\* bcrypt.hash(password, saltRounds): a self-describing digest, salt drawn at random
hashPassword(password, salt) ==
    <<"$2b$", SaltRounds, salt, Crypt(SaltRounds, salt, password)>>

verifyPasswordAny(password, hash) == TRUE

verifyPasswordSwapped(password, hash) ==
    /\ Len(password) = 4
    /\ password[4] = Crypt(password[2], password[3], hash)

\* bcrypt.compare(password, hash): recompute with the digest's own parameters
verifyPassword(password, hash) ==
    /\ Len(hash) = 4
    /\ hash[4] = Crypt(hash[2], hash[3], password)

\* Buffer.toString('hex'): two lowercase hexadecimal digits per byte
HexDigits == <<"0", "1", "2", "3", "4", "5", "6", "7",
               "8", "9", "a", "b", "c", "d", "e", "f">>
RECURSIVE toHex(_)
toHex(bytes) ==
    IF bytes = <<>> THEN ""
    ELSE HexDigits[(Head(bytes) \div 16) + 1] \o HexDigits[(Head(bytes) % 16) + 1]
         \o toHex(Tail(bytes))

\* randomBytes(bytes).toString('hex'), for the bytes the random source delivered
generateSessionToken(bytes) == toHex(bytes)

\* every token generateSessionToken can return here
Tokens == {generateSessionToken(b) : b \in RandomBytes}

generateSessionExpiryMinutes(hours) == now + hours * 60 * 1000

\* new Date(Date.now() + hours * 60 * 60 * 1000), as milliseconds
generateSessionExpiry(hours) == now + hours * HourMs

----------------------------------------------------------------------------
(* The store: Prisma models User and Session with their constraints *)

UserById(id) == CHOOSE u \in users : u.id = id
UserByEmail(email) == {u \in users : u.email = email}
SessionByToken(token) == {s \in sessions : s.sessionToken = token}

\* User.email @unique and User.username @unique
UserUnique(email, username) ==
    /\ \A u \in users : u.email # email
    /\ \A u \in users : u.username # username

SessionTokenNotUnique(token) == TRUE

\* Session.sessionToken @unique
SessionTokenUnique(token) == \A s \in sessions : s.sessionToken # token

\* Session.user @relation(fields: [userId], references: [id])
SessionUserExists(userId) == \E u \in users : u.id = userId

\* what a call returned (kind "ok") or threw (kind "error")
\* (arg is the call's key argument: a token, a user id or an email)
Ok(op, arg, value) ==
    [op |-> op, arg |-> arg, kind |-> "ok", error |-> "", value |-> value]
Err(op, arg, error) ==
    [op |-> op, arg |-> arg, kind |-> "error", error |-> error, value |-> Null]
NoOut == [op |-> "", arg |-> Null, kind |-> "none", error |-> "", value |-> Null]

\* a request slot with no flow in progress, and the locals a flow keeps
Idle == [op |-> "", pc |-> "idle", email |-> "", password |-> <<>>, username |-> "",
         hashedPassword |-> <<>>, userId |-> 0, verified |-> FALSE]

UserRowCounterOne(id, data) ==
    [id |-> id, username |-> data.username, email |-> data.email,
     password |-> data.password, role |-> DefaultRole,
     lastLoginAt |-> NoDate, failedLoginAttempts |-> DefaultFailedLoginAttempts + 1,
     createdAt |-> now, updatedAt |-> now]

\* the row prisma.user.create inserts for `data`, defaults filled in
UserRow(id, data) ==
    [id |-> id, username |-> data.username, email |-> data.email,
     password |-> data.password, role |-> DefaultRole,
     lastLoginAt |-> NoDate, failedLoginAttempts |-> DefaultFailedLoginAttempts,
     createdAt |-> now, updatedAt |-> now]

\* the row prisma.session.create inserts for `data`, defaults filled in
SessionRow(id, data) ==
    [id |-> id, userId |-> data.userId, sessionToken |-> data.sessionToken,
     expiresAt |-> data.expiresAt, ipAddress |-> data.ipAddress,
     userAgent |-> data.userAgent, lastActiveAt |-> now,
     createdAt |-> now, updatedAt |-> now]

----------------------------------------------------------------------------
(* Session store accessor and validator *)

\* createSession's `data`
createSessionData(userId, ipAddress, userAgent, bytes) ==
    [userId |-> userId,
     sessionToken |-> generateSessionToken(bytes),
     expiresAt |-> generateSessionExpiry(DefaultHours),
     ipAddress |-> ipAddress,
     userAgent |-> userAgent]

\* createSession: one prisma.session.create; a rejected insert is thrown as it is
createSession(userId, ipAddress, userAgent, bytes) ==
    LET data == createSessionData(userId, ipAddress, userAgent, bytes)
    IN  IF ~SessionUserExists(data.userId) THEN Err("createSession", userId, "P2003")
        ELSE IF ~SessionTokenUnique(data.sessionToken) THEN Err("createSession", userId, "P2002")
        ELSE Ok("createSession", userId, SessionRow(nextSessionId, data))

\* the store after a createSession that resulted in `res`, issued by `by`
ApplyCreateSession(res, by) ==
    IF res.kind = "ok"
    THEN /\ sessions' = sessions \cup {res.value}
         /\ nextSessionId' = nextSessionId + 1
         /\ issued' = issued \cup {[row |-> res.value, by |-> by, userId |-> res.arg]}
    ELSE UNCHANGED <<sessions, nextSessionId, issued>>

\* invalidateSession: prisma.session.delete({ where: { sessionToken } });
\* delete throws P2025 when no row matches
invalidateSession(sessionToken) ==
    LET rows == SessionByToken(sessionToken)
    IN  IF rows = {} THEN Err("invalidateSession", sessionToken, "P2025")
        ELSE Ok("invalidateSession", sessionToken, CHOOSE s \in rows : TRUE)

ApplyInvalidateSessionKeepsRow(res) ==
    /\ UNCHANGED sessions
    /\ invalidated' = IF res.kind = "ok" THEN invalidated \cup {res.value.id}
                                          ELSE invalidated

\* the store after an invalidateSession that resulted in `res`: the row is gone
ApplyInvalidateSession(res) ==
    IF res.kind = "ok"
    THEN /\ sessions' = sessions \ {res.value}
         /\ invalidated' = invalidated \cup {res.value.id}
    ELSE UNCHANGED <<sessions, invalidated>>

getValidSessionGte(sessionToken) ==
    LET rows == {s \in sessions : /\ s.sessionToken = sessionToken
                                  /\ s.expiresAt >= now}
    IN  IF rows = {} THEN Null
        ELSE LET s == CHOOSE x \in rows : TRUE
             IN  [session |-> s, user |-> UserById(s.userId)]

getValidSessionNoExpiry(sessionToken) ==
    LET rows == {s \in sessions : s.sessionToken = sessionToken}
    IN  IF rows = {} THEN Null
        ELSE LET s == CHOOSE x \in rows : TRUE
             IN  [session |-> s, user |-> UserById(s.userId)]

\* getValidSession: prisma.session.findUnique({ where: { sessionToken,
\* expiresAt: { gt: new Date() } }, include: { user: true } })
getValidSession(sessionToken) ==
    LET rows == {s \in sessions : /\ s.sessionToken = sessionToken
                                  /\ s.expiresAt > now}
    IN  IF rows = {} THEN Null
        ELSE LET s == CHOOSE x \in rows : TRUE
             IN  [session |-> s, user |-> UserById(s.userId)]

----------------------------------------------------------------------------
(* Profile rows and the deletion of a User *)

\* Profile.user @relation(fields: [userId], references: [id])
ProfileUserExists(userId) == \E u \in users : u.id = userId

\* Profile.userId @unique
ProfileUserUnique(userId) == \A q \in profiles : q.userId # userId

\* a Profile row as the store completes it from the columns' defaults
ProfileRow(id, userId) ==
    [id |-> id, userId |-> userId, name |-> Null, bio |-> Null,
     profilePicture |-> Null, githubUrl |-> Null, twitterUrl |-> Null,
     websiteUrl |-> Null, createdAt |-> now, updatedAt |-> now]

\* the store's create on Profile: the foreign key, then the unique column
createProfile(userId) ==
    IF ~ProfileUserExists(userId) THEN Err("createProfile", userId, "P2003")
    ELSE IF ~ProfileUserUnique(userId) THEN Err("createProfile", userId, "P2002")
    ELSE Ok("createProfile", userId, ProfileRow(nextProfileId, userId))

\* the store's delete on User; delete throws P2025 when no row matches
deleteUser(userId) ==
    IF \E u \in users : u.id = userId
    THEN Ok("deleteUser", userId, UserById(userId))
    ELSE Err("deleteUser", userId, "P2025")

SessionsKept(userId) == sessions

\* Session.user onDelete: Cascade - the Session rows left when User userId is deleted
SessionsCascade(userId) == {s \in sessions : s.userId # userId}

\* Profile.user onDelete: Cascade - the Profile rows left when User userId is deleted
ProfilesCascade(userId) == {q \in profiles : q.userId # userId}

----------------------------------------------------------------------------
(* Initial state: empty tables, every request slot idle *)

Init ==
    /\ users = {}
    /\ sessions = {}
    /\ profiles = {}
    /\ now = 0
    /\ req = [p \in Procs |-> Idle]
    /\ out = NoOut
    /\ nextUserId = 1
    /\ nextSessionId = 1
    /\ nextProfileId = 1
    /\ plain = <<>>
    /\ issued = {}
    /\ failed = <<>>
    /\ invalidated = {}
    /\ events = 0

\* the clock advances
Tick ==
    /\ events < MaxEvents
    /\ events' = events + 1
    /\ now' = now + TickHours * HourMs
    /\ UNCHANGED <<users, sessions, profiles, nextProfileId, req, out, nextUserId, nextSessionId, history>>

\* a caller makes a call on an idle request slot
Call(p) ==
    /\ req[p].pc = "idle"
    /\ events < MaxEvents
    /\ events' = events + 1

CreateSession(p, userId, r) ==
    /\ Call(p)
    /\ LET res == createSession(userId, Undefined, Undefined, r)
       IN  /\ ApplyCreateSession(res, "createSession")
           /\ out' = res
    /\ UNCHANGED <<users, profiles, nextProfileId, now, req, nextUserId, plain, failed, invalidated>>

InvalidateSession(p, sessionToken) ==
    /\ Call(p)
    /\ LET res == invalidateSession(sessionToken)
       IN  /\ ApplyInvalidateSession(res)
           /\ out' = res
    /\ UNCHANGED <<users, profiles, nextProfileId, now, req, nextUserId, nextSessionId, plain, issued, failed>>

GetValidSessionPurging(p, sessionToken) ==
    /\ Call(p)
    /\ out' = Ok("getValidSession", sessionToken, getValidSession(sessionToken))
    /\ sessions' = {s \in sessions : s.sessionToken = sessionToken => s.expiresAt > now}
    /\ UNCHANGED <<users, profiles, nextProfileId, now, req, nextUserId, nextSessionId,
                   history>>

\* getValidSession is one findUnique: it writes nothing
GetValidSession(p, sessionToken) ==
    /\ Call(p)
    /\ out' = Ok("getValidSession", sessionToken, getValidSession(sessionToken))
    /\ UNCHANGED <<users, sessions, profiles, nextProfileId, now, req, nextUserId, nextSessionId, history>>

----------------------------------------------------------------------------
(* Registration *)

registerUserDataPlain(email, password, hashedPassword, username) ==
    [email |-> email, password |-> password, username |-> username]

\* registerUser's `data`: the digest, not the plaintext, goes into the row
registerUserData(email, password, hashedPassword, username) ==
    [email |-> email, password |-> hashedPassword, username |-> username]

\* registerUser up to its await: hashPassword(password) has resolved
RegisterUserHash(p, email, password, username, salt) ==
    /\ Call(p)
    /\ req' = [req EXCEPT ![p] =
                 [Idle EXCEPT !.op = "registerUser", !.pc = "create",
                              !.email = email, !.password = password,
                              !.username = username,
                              !.hashedPassword = hashPassword(password, salt)]]
    /\ UNCHANGED <<users, sessions, profiles, nextProfileId, now, out, nextUserId, nextSessionId, history>>

\* registerUser's db.user.create: the store enforces the unique columns and its
\* rejection (P2002) reaches the caller as thrown; nothing else follows the insert
RegisterUserCreate(p) ==
    /\ req[p].op = "registerUser"
    /\ req[p].pc = "create"
    /\ LET r == req[p]
           data == registerUserData(r.email, r.password, r.hashedPassword, r.username)
           row == UserRow(nextUserId, data)
       IN  IF UserUnique(data.email, data.username)
           THEN /\ users' = users \cup {row}
                /\ nextUserId' = nextUserId + 1
                /\ plain' = (row.id :> r.password) @@ plain
                /\ failed' = (row.id :> 0) @@ failed
                /\ out' = Ok("registerUser", r.email, row)
           ELSE /\ out' = Err("registerUser", r.email, "P2002")
                /\ UNCHANGED <<users, nextUserId, plain, failed>>
    /\ req' = [req EXCEPT ![p] = Idle]
    /\ UNCHANGED <<sessions, profiles, nextProfileId, now, nextSessionId, issued, invalidated, events>>

----------------------------------------------------------------------------
(* Login, as section 4.5 of the specification orders it *)

\* look up User by email and verify the password against the digest read; an
\* unknown email ends the flow with AuthenticationError
loginNotFoundDistinct(email) == Err("login", email, "NotFoundError")

\* what Login returns when no User has the email: generic "invalid credentials"
loginNotFound(email) == Err("login", email, "AuthenticationError")

\* what Login returns when the password does not verify
loginWrongPassword(email) == Err("login", email, "AuthenticationError")

LoginLookup(p, email, password) ==
    /\ Call(p)
    /\ LET found == UserByEmail(email)
       IN  IF found = {}
           THEN /\ out' = loginNotFound(email)
                /\ UNCHANGED req
           ELSE LET u == CHOOSE x \in found : TRUE
                IN  /\ req' = [req EXCEPT ![p] =
                                 [Idle EXCEPT !.op = "login", !.pc = "update",
                                              !.email = email, !.password = password,
                                              !.userId = u.id,
                                              !.verified = verifyPassword(password, u.password)]]
                    /\ UNCHANGED out
    /\ UNCHANGED <<users, sessions, profiles, nextProfileId, now, nextUserId, nextSessionId, history>>

\* on failure increment the counter and fail; on success reset the counter and
\* set the last-login timestamp (one single-row read-modify-write either way)
LoginUpdate(p) ==
    /\ req[p].op = "login"
    /\ req[p].pc = "update"
    /\ IF ~\E x \in users : x.id = req[p].userId
       THEN \* the row was deleted since the lookup: the update matches no row
            /\ out' = Err("login", req[p].email, "P2025")
            /\ req' = [req EXCEPT ![p] = Idle]
            /\ UNCHANGED <<users, failed>>
       ELSE
       LET u == UserById(req[p].userId)
       IN  IF req[p].verified
           THEN /\ users' = (users \ {u}) \cup
                       {[u EXCEPT !.failedLoginAttempts = 0, !.lastLoginAt = now,
                                  !.updatedAt = now]}
                /\ req' = [req EXCEPT ![p].pc = "issue"]
                /\ UNCHANGED <<out, failed>>
           ELSE /\ users' = (users \ {u}) \cup
                       {[u EXCEPT !.failedLoginAttempts = @ + 1, !.updatedAt = now]}
                /\ req' = [req EXCEPT ![p] = Idle]
                /\ out' = loginWrongPassword(req[p].email)
                /\ failed' = [failed EXCEPT ![u.id] = @ + 1]
    /\ UNCHANGED <<sessions, profiles, nextProfileId, now, nextUserId, nextSessionId, plain, issued,
                   invalidated, events>>

\* issue the session (createSession) and return it
LoginIssue(p, r) ==
    /\ req[p].op = "login"
    /\ req[p].pc = "issue"
    /\ LET res == createSession(req[p].userId, Undefined, Undefined, r)
       IN  /\ ApplyCreateSession(res, "login")
           /\ out' = [res EXCEPT !.op = "login", !.arg = req[p].email]
    /\ req' = [req EXCEPT ![p] = Idle]
    /\ UNCHANGED <<users, profiles, nextProfileId, now, nextUserId, plain, failed, invalidated, events>>

----------------------------------------------------------------------------
(* Store primitives on Profile and User (section 6 of the specification) *)

CreateProfile(p, userId) ==
    /\ Call(p)
    /\ LET res == createProfile(userId)
       IN  /\ out' = res
           /\ IF res.kind = "ok"
              THEN /\ profiles' = profiles \cup {res.value}
                   /\ nextProfileId' = nextProfileId + 1
              ELSE UNCHANGED <<profiles, nextProfileId>>
    /\ UNCHANGED <<users, sessions, now, req, nextUserId, nextSessionId, history>>

\* deleting a User deletes the Session rows and the Profile row that reference it
DeleteUser(p, userId) ==
    /\ Call(p)
    /\ LET res == deleteUser(userId)
       IN  /\ out' = res
           /\ IF res.kind = "ok"
              THEN /\ users' = users \ {res.value}
                   /\ sessions' = SessionsCascade(userId)
                   /\ profiles' = ProfilesCascade(userId)
              ELSE UNCHANGED <<users, sessions, profiles>>
    /\ UNCHANGED <<now, req, nextUserId, nextSessionId, nextProfileId, history>>

----------------------------------------------------------------------------

Next ==
    \/ Tick
    \/ \E p \in Procs, g \in Registrations, s \in Salts :
          RegisterUserHash(p, g.email, g.password, g.username, s)
    \/ \E p \in Procs : RegisterUserCreate(p)
    \/ \E p \in Procs, e \in Emails, pw \in Passwords : LoginLookup(p, e, pw)
    \/ \E p \in Procs : LoginUpdate(p)
    \/ \E p \in Procs, r \in RandomBytes : LoginIssue(p, r)
    \/ \E p \in Procs, id \in 1..nextUserId, r \in RandomBytes : CreateSession(p, id, r)
    \/ \E p \in Procs, t \in Tokens : InvalidateSession(p, t)
    \/ \E p \in Procs, t \in Tokens : GetValidSession(p, t)

Spec == Init /\ [][Next]_vars

\* the documented flows together with the store's primitives on Profile and User
NextCascade ==
    \/ Next
    \/ \E p \in Procs, id \in 1..nextUserId : CreateProfile(p, id)
    \/ \E p \in Procs, id \in 1..nextUserId : DeleteUser(p, id)

SpecCascade == Init /\ [][NextCascade]_vars

----------------------------------------------------------------------------
(* Derived history *)

\* ids of the Session rows that were inserted and are no longer stored
Removed == {i.row.id : i \in issued} \ {s.id : s \in sessions}

\* a Login has written the counter of user `id`
Touched(id) == failed[id] > 0 \/ UserById(id).lastLoginAt # NoDate

\* request slot p takes a step of its Login flow
LoginStep(p) == req[p].op = "login" /\ req'[p] # req[p]

\* the password a Login in slot p presented is the one its user registered with
RightPassword(p) == req[p].password = plain[req[p].userId]

----------------------------------------------------------------------------
(* C1: getValidSession(token) returns a session, joined with its owning    *)
(* user, exactly when a Session row with that token exists and the current *)
(* time is strictly before its expiresAt; with no such row and with an     *)
(* expired row it returns the same value, null.                            *)

C1_ValidIffUnexpiredRow ==
    \A t \in Tokens :
        LET v == getValidSession(t)
            live == {s \in sessions : s.sessionToken = t /\ now < s.expiresAt}
        IN  /\ (v # Null) <=> (live # {})
            /\ v # Null =>
                  /\ v.session \in live
                  /\ v.user \in users
                  /\ v.user.id = v.session.userId

\* getValidSession has just returned null for a token whose row is stored but expired
C1_Witness ==
    /\ out.op = "getValidSession"
    /\ out.value = Null
    /\ \E s \in sessions : s.sessionToken = out.arg /\ s.expiresAt <= now

----------------------------------------------------------------------------
(* C2: session round trip. After createSession(u) has returned a session   *)
(* with token t, and as long as that session has not been invalidated,     *)
(* getValidSession(t) returns that session, owned by u, at every clock     *)
(* value before the session's expiresAt, and null from expiresAt on.       *)

C2_RoundTrip ==
    \A i \in issued :
        i.row.id \notin Removed =>
            LET v == getValidSession(i.row.sessionToken)
            IN  IF now < i.row.expiresAt
                THEN /\ v # Null
                     /\ v.session = i.row
                     /\ v.session.userId = i.userId
                     /\ v.user.id = i.userId
                ELSE v = Null

\* a later clock value before expiry: getValidSession has just returned the
\* session createSession(u) made, with u as its user
C2_Witness ==
    /\ out.op = "getValidSession"
    /\ out.value # Null
    /\ \E i \in issued :
          /\ i.by = "createSession"
          /\ i.row.sessionToken = out.arg
          /\ i.row.createdAt < now
          /\ now < i.row.expiresAt
          /\ out.value.session = i.row
          /\ out.value.user.id = i.userId

----------------------------------------------------------------------------
(* C3: invalidateSession(token) is idempotent: called with a token that    *)
(* has no Session row (for one, a second call with the same token) it      *)
(* produces no error and leaves the store unchanged.                       *)

C3_InvalidateNeverErrors ==
    out.op = "invalidateSession" => out.kind = "ok"

----------------------------------------------------------------------------
(* C4: in every Login flow the password is verified and the failed-login   *)
(* counter written strictly before a session is issued; a Login whose      *)
(* verification failed, or whose email lookup failed, creates no Session   *)
(* row.                                                                    *)

C4_VerifyBeforeIssue ==
    [][/\ \A p \in Procs :
            (LoginStep(p) /\ sessions' # sessions) =>
                /\ req[p].pc = "issue"
                /\ req[p].verified
                /\ RightPassword(p)
                /\ Touched(req[p].userId)
                /\ \A s \in sessions' \ sessions : s.userId = req[p].userId
       /\ (out' # out /\ out'.op = "login" /\ out'.error = "AuthenticationError") =>
            sessions' = sessions
      ]_vars

\* a Login has issued a session to a user who also had a Login fail
C4_Witness ==
    /\ out.op = "login"
    /\ out.kind = "ok"
    /\ out.value \in sessions
    /\ failed[out.value.userId] > 0
    /\ \E i \in issued : i.by = "login" /\ i.row = out.value

----------------------------------------------------------------------------
(* C5: a login for an existing email with a wrong password fails with      *)
(* AuthenticationError and increments that user's failedLoginAttempts by   *)
(* exactly one (from the default 0 to 1 on the first failure); the         *)
(* sessions stay as they are.                                              *)

C5_WrongPasswordCountsOnce ==
    [][\A p \in Procs :
          (LoginStep(p) /\ req[p].pc = "update" /\ ~RightPassword(p)) =>
              LET id == req[p].userId
                  u == UserById(id)
              IN  /\ out' = Err("login", req[p].email, "AuthenticationError")
                  /\ req'[p].pc = "idle"
                  /\ sessions' = sessions
                  /\ \E v \in users' :
                        /\ v.id = id
                        /\ v.failedLoginAttempts = u.failedLoginAttempts + 1
                        /\ ~Touched(id) => v.failedLoginAttempts = 1
                        /\ v.password = u.password
                        /\ v.lastLoginAt = u.lastLoginAt
                  /\ {x \in users' : x.id # id} = {x \in users : x.id # id}
      ]_vars

\* the first wrong-password login of a registered user has just failed
C5_Witness ==
    /\ out.op = "login"
    /\ out.error = "AuthenticationError"
    /\ \E u \in users :
          /\ u.email = out.arg
          /\ failed[u.id] = 1
          /\ u.failedLoginAttempts = 1
          /\ u.lastLoginAt = NoDate

----------------------------------------------------------------------------
(* C6: a login with the correct password succeeds whatever number of       *)
(* failed attempts preceded it, resets failedLoginAttempts to 0, updates   *)
(* the last-login timestamp and issues a new session whose token differs   *)
(* from the token of every session issued earlier.                         *)

----------------------------------------------------------------------------
(* C7: registering with an email or username an existing user holds fails  *)
(* with ConflictError, creates no User row and leaves the first user's row *)
(* unchanged, also when two such registrations run concurrently.           *)

C7_DuplicateIsConflictError ==
    /\ \A u, v \in users : (u.email = v.email \/ u.username = v.username) => u = v
    /\ (out.op = "registerUser" /\ out.kind = "error") => out.error = "ConflictError"

----------------------------------------------------------------------------
(* C8: Register is atomic: once a Register call has finished, either the   *)
(* User row and its auto-issued session both exist or neither does.        *)

C8_RegisterIssuesSession ==
    \A u \in users : \E i \in issued : i.by = "registerUser" /\ i.row.userId = u.id

----------------------------------------------------------------------------
(* C9: no two Session rows carry the same token, and a token once assigned *)
(* to a session is never assigned to a later session, even after the       *)
(* earlier session was invalidated.                                        *)

\* C9 as stated: no two sessions ever inserted share a token
C9_TokensNeverReused ==
    \A i, j \in issued : i.row.sessionToken = j.row.sessionToken => i = j

\* C9 as amended: the rows stored at any one time carry distinct tokens (and ids);
\* two sessions were given the same token only if the earlier one was removed
\* before the later one was inserted
C9_StoredTokensDistinct ==
    /\ \A s, t \in sessions : (s.sessionToken = t.sessionToken \/ s.id = t.id) => s = t
    /\ \A i, j \in issued :
          (i.row.sessionToken = j.row.sessionToken /\ i.row.id < j.row.id) =>
              i.row.id \in Removed

\* a stored session carries the token of an earlier, invalidated session
C9_Witness ==
    \E i, j \in issued :
        /\ i.row.id < j.row.id
        /\ i.row.sessionToken = j.row.sessionToken
        /\ i.row.id \in Removed
        /\ j.row \in sessions

----------------------------------------------------------------------------
(* C10: the password stored in every User row is the output of the hasher  *)
(* applied to the registered plaintext, and never the plaintext itself.    *)

C10_DigestNotPlaintext ==
    \A u \in users :
        /\ u.password # plain[u.id]
        /\ \E salt \in Salts : u.password = hashPassword(plain[u.id], salt)
        /\ verifyPassword(plain[u.id], u.password)

\* a registered user has logged in, and failed a login too
C10_Witness ==
    \E u \in users : u.lastLoginAt # NoDate /\ failed[u.id] > 0

----------------------------------------------------------------------------
(* C11: computeExpiry(h) called at time T returns exactly T plus h hours,  *)
(* h defaulting to 24: computeExpiry(24) at T is T + 86400 seconds. The    *)
(* result depends on the current time and h alone.                         *)

C11_ExpiryIsNowPlusHours ==
    /\ generateSessionExpiry(DefaultHours) = now + 86400 * 1000
    /\ \A h \in 0..48 : generateSessionExpiry(h) = now + h * 3600 * 1000
    /\ \A i \in issued : i.row.expiresAt = i.row.createdAt + 86400 * 1000

\* a session made at a time T after the start expires at T + 86400 seconds
C11_Witness ==
    \E i \in issued :
        /\ i.row.createdAt > 0
        /\ i.row.expiresAt = i.row.createdAt + 86400 * 1000

----------------------------------------------------------------------------
(* C12: what the caller of Login sees is the same for an email that is not *)
(* registered and for a registered email with a wrong password: in both a  *)
(* failing Login returns the same generic AuthenticationError result and   *)
(* issues no session, whatever the store holds.                            *)

\* a Login call ends at the lookup: no User has the email
LoginUnknownStep ==
    /\ events' # events
    /\ now' = now
    /\ req' = req
    /\ out'.op = "login"

\* a Login in slot p ends because the password did not verify
LoginWrongStep(p) == LoginStep(p) /\ req[p].pc = "update" /\ ~req[p].verified

C12_FailuresIndistinguishable ==
    [][/\ \A e \in Emails : loginNotFound(e) = loginWrongPassword(e)
       /\ LoginUnknownStep =>
              /\ UserByEmail(out'.arg) = {}
              /\ out' = Err("login", out'.arg, "AuthenticationError")
              /\ sessions' = sessions
              /\ issued' = issued
       /\ \A p \in Procs :
              LoginWrongStep(p) =>
                  /\ UserByEmail(req[p].email) # {}
                  /\ out' = Err("login", req[p].email, "AuthenticationError")
                  /\ sessions' = sessions
                  /\ issued' = issued]_vars

\* a Login for an email nobody registered has failed, in a store where a Login
\* of a registered user failed on the password before
C12_Witness ==
    /\ out = Err("login", out.arg, "AuthenticationError")
    /\ UserByEmail(out.arg) = {}
    /\ \E u \in users : failed[u.id] > 0

----------------------------------------------------------------------------
(* C13: when the store rejects createSession's insert because the token    *)
(* duplicates a stored one, createSession draws a new token and retries    *)
(* the insert exactly once; a createSession that still fails on the token  *)
(* fails with PersistenceError and adds no row.                            *)

\* the last call was a createSession the store rejected for its token
CreateSessionTokenRejected ==
    /\ out.op = "createSession"
    /\ out.kind = "error"
    /\ out.error # "P2003"

C13_DuplicateTokenRetried == CreateSessionTokenRejected => out.error = "PersistenceError"

----------------------------------------------------------------------------
(* C14: a getValidSession(token) that runs concurrently with an            *)
(* invalidateSession(token) may return the session or null; every          *)
(* getValidSession(token) that starts after the invalidateSession has      *)
(* completed returns null.                                                 *)

\* C14 as stated: once a session has been invalidated its token validates to null
C14_NullAfterLogout ==
    \A i \in issued :
        i.row.id \in invalidated => getValidSession(i.row.sessionToken) = Null

\* C14 as amended: once a session has been invalidated no getValidSession
\* returns it; its token validates to null or to a session inserted later
C14_InvalidatedSessionNeverValidates ==
    \A i \in issued :
        i.row.id \in invalidated =>
            LET v == getValidSession(i.row.sessionToken)
            IN  v # Null => (v.session.id > i.row.id /\ v.session.id \notin invalidated)

\* an invalidated session that has not expired: getValidSession has returned
\* null for its token after the invalidateSession, and the session before it
C14_Witness ==
    /\ out = Ok("getValidSession", out.arg, Null)
    /\ \E i \in issued :
          /\ i.row.sessionToken = out.arg
          /\ i.row.id \in invalidated
          /\ now < i.row.expiresAt

----------------------------------------------------------------------------
(* C15: referential integrity under cascade delete. In every reachable     *)
(* state each Session row and each Profile row references an existing User *)
(* row; deleting a user removes all of that user's sessions and its        *)
(* profile, so no token of a deleted user validates afterward.             *)

\* ids of the User rows that were inserted and are no longer stored
DeletedUsers == (1..(nextUserId - 1)) \ {u.id : u \in users}

ReferentialIntegrity ==
    /\ \A s \in sessions : \E u \in users : u.id = s.userId
    /\ \A q \in profiles : \E u \in users : u.id = q.userId
    /\ \A q, r \in profiles : q.userId = r.userId => q = r

\* C15 as stated: a token issued to a user since deleted validates to null
C15_DeletedUsersTokensInvalid ==
    /\ ReferentialIntegrity
    /\ \A i \in issued :
          i.userId \in DeletedUsers => getValidSession(i.row.sessionToken) = Null

\* C15 as amended: no session of a deleted user is stored or validates; its
\* token validates to null or to a session of an existing user
C15_DeletedUsersSessionsInvalid ==
    /\ ReferentialIntegrity
    /\ \A i \in issued :
          i.userId \in DeletedUsers =>
              /\ i.row \notin sessions
              /\ LET v == getValidSession(i.row.sessionToken)
                 IN  v # Null => /\ v.session.id # i.row.id
                                 /\ v.session.userId \notin DeletedUsers
                                 /\ v.user \in users

\* a user who held an unexpired session has just been deleted, while another
\* user's profile is stored
C15_Witness ==
    /\ out.op = "deleteUser"
    /\ out.kind = "ok"
    /\ \E i \in issued : i.userId = out.arg /\ now < i.row.expiresAt
    /\ profiles # {}

----------------------------------------------------------------------------
(* C16: getValidSession is read-only: for every token and store state it   *)
(* leaves the User and Session tables unchanged, so a session whose expiry *)
(* has passed stays in the store, its row not deleted and its lastActiveAt *)
(* not modified, until invalidateSession or a cascade delete removes it.   *)

\* a getValidSession call is made and returns
GetValidSessionStep ==
    /\ events' # events
    /\ now' = now
    /\ req' = req
    /\ out'.op = "getValidSession"

C16_GetValidSessionReadOnly ==
    [][/\ GetValidSessionStep =>
              /\ users' = users
              /\ sessions' = sessions
              /\ profiles' = profiles
       /\ \A s \in sessions :
              s.expiresAt <= now =>
                  \/ s \in sessions'
                  \/ /\ out'.op = "invalidateSession"
                     /\ out'.value = s
                  \/ /\ out'.op = "deleteUser"
                     /\ out'.kind = "ok"
                     /\ out'.arg = s.userId]_vars

\* getValidSession has returned null for an expired session, whose row is
\* stored as it was inserted
C16_Witness ==
    /\ out = Ok("getValidSession", out.arg, Null)
    /\ \E i \in issued :
          /\ i.row \in sessions
          /\ i.row.sessionToken = out.arg
          /\ i.row.expiresAt <= now
          /\ i.row.lastActiveAt = i.row.createdAt

====
